---- MODULE Spec2Model ----
(***************************************************************************)
(* Flight Data Explorer: the Streamlit dashboard (app.py) and the FastAPI  *)
(* forwarder (main.py) over one PostgreSQL database.                       *)
(*                                                                         *)
(* The database is reduced to one table t(id) with a primary key on id.    *)
(* Query texts are sequences of one-character strings so that              *)
(* query.strip().lower().startswith("select") is computed, not assumed.    *)
(***************************************************************************)
EXTENDS Integers, Sequences, FiniteSets, TLC

VARIABLES tbl, query_history, query_result, sidebar, openSessions, last

vars == <<tbl, query_history, query_result, sidebar, openSessions, last>>

\* ---------------------------------------------------------------- bounds
MaxId == 1
MaxHist == 2

\* ------------------------------------------------------- program constants
HistoryShown == 5
RowLimit == 1000
StatusBadRequest == 400
StatusNotFound == 404

\* --------------------------------------------------------- text handling
Whitespace == {" ", "\n", "\t"}

UpperAlpha == <<"A","B","C","D","E","F","G","H","I","J","K","L","M",
                "N","O","P","Q","R","S","T","U","V","W","X","Y","Z">>
LowerAlpha == <<"a","b","c","d","e","f","g","h","i","j","k","l","m",
                "n","o","p","q","r","s","t","u","v","w","x","y","z">>

LowerChar(c) ==
  IF \E i \in 1..26 : UpperAlpha[i] = c
  THEN LowerAlpha[CHOOSE i \in 1..26 : UpperAlpha[i] = c]
  ELSE c

\* str.lower()
Lower(s) == [i \in 1..Len(s) |-> LowerChar(s[i])]

RECURSIVE LStrip(_)
LStrip(s) == IF s # <<>> /\ Head(s) \in Whitespace THEN LStrip(Tail(s)) ELSE s

RECURSIVE RStrip(_)
RStrip(s) ==
  IF s # <<>> /\ s[Len(s)] \in Whitespace THEN RStrip(SubSeq(s, 1, Len(s) - 1)) ELSE s

\* str.strip()
Strip(s) == RStrip(LStrip(s))

\* str.startswith(p)
StartsWith(s, p) == Len(s) >= Len(p) /\ SubSeq(s, 1, Len(p)) = p

kwSelect == <<"s","e","l","e","c","t">>

\* app.py line 40: query.strip().lower().startswith("select")
IsSelect(query) == StartsWith(Lower(Strip(query)), kwSelect)

\* the truthiness of query.strip() used by the page guards
NonBlank(query) == Strip(query) # <<>>

\* ------------------------------------------------------------ query texts
Digits == <<"1","2","3","4","5","6","7","8","9">>

SelectStarFrom == <<"S","E","L","E","C","T"," ","*"," ","F","R","O","M"," ">>
LimitClause == <<" ","L","I","M","I","T"," ","1","0","0","0">>

TableT == <<"t">>
TableX == <<"x">>
TableNames == {TableT, TableX}

\* f"SELECT * FROM {table_name} LIMIT 1000"
TableQuery(table_name) == SelectStarFrom \o table_name \o LimitClause

QSpaces == <<" ","\n">>
QSelAll == <<"\n">> \o SelectStarFrom \o TableT
QSelLower == <<"s","e","l","e","c","t"," ","i","d"," ","f","r","o","m"," ","t">>
QSelNone == SelectStarFrom \o TableT \o <<" ","W","H","E","R","E"," ","i","d","<","0">>
QSelMissing == SelectStarFrom \o TableX
QTableCmd == <<"T","A","B","L","E"," ","t">>
QDelNone == <<"D","E","L","E","T","E"," ","F","R","O","M"," ","t",
              " ","W","H","E","R","E"," ","i","d","<","0">>
QInsert(i) == <<"I","N","S","E","R","T"," ","I","N","T","O"," ","t",
                " ","V","A","L","U","E","S","(">> \o <<Digits[i]>> \o <<")">>

Ids == 1..MaxId

Queries ==
  {QSpaces, QSelAll, QSelLower, QSelNone, QSelMissing, QTableCmd, QDelNone}
  \cup {QInsert(i) : i \in Ids}

\* ------------------------------------------------------------ the database
\* rows of t in primary-key order, one tuple per row
RECURSIVE RowsOf(_)
RowsOf(S) ==
  IF S = {} THEN <<>>
  ELSE LET m == CHOOSE x \in S : \A y \in S : x <= y
       IN <<(<<m>>)>> \o RowsOf(S \ {m})

Min(a, b) == IF a < b THEN a ELSE b

\* LIMIT n
Limit(rows, n) == SubSeq(rows, 1, Min(Len(rows), n))

ColsT == <<"id">>

ErrConnection == "connection to server failed"
ErrEmptyQuery == "can't execute an empty query"
ErrSyntax == "syntax error"
ErrNoRelation == "relation \"x\" does not exist"
ErrDuplicate == "duplicate key value violates unique constraint"
ErrNoRows == "This result object does not return rows"

DbError(msg, t) ==
  [ok |-> FALSE, returnsRows |-> FALSE, cols |-> <<>>, rows |-> <<>>,
   tblAfter |-> t, msg |-> msg]

DbRows(cols, rows, t) ==
  [ok |-> TRUE, returnsRows |-> TRUE, cols |-> cols, rows |-> rows,
   tblAfter |-> t, msg |-> ""]

DbWrite(tAfter) ==
  [ok |-> TRUE, returnsRows |-> FALSE, cols |-> <<>>, rows |-> <<>>,
   tblAfter |-> tAfter, msg |-> ""]

\* What PostgreSQL does with one statement text on table contents t.
\* up = FALSE is a lost or refused connection.
DbRun(query, t, up) ==
  LET s == Strip(query) IN
  IF ~up THEN DbError(ErrConnection, t)
  ELSE IF s = <<>> THEN DbError(ErrEmptyQuery, t)
  ELSE IF s = Strip(QSelAll) \/ s = QSelLower \/ s = QTableCmd
    THEN DbRows(ColsT, RowsOf(t), t)
  ELSE IF s = TableQuery(TableT) THEN DbRows(ColsT, Limit(RowsOf(t), RowLimit), t)
  ELSE IF s = QSelNone THEN DbRows(ColsT, <<>>, t)
  ELSE IF s = QSelMissing \/ s = TableQuery(TableX)
    THEN DbError(ErrNoRelation, t)
  ELSE IF s = QDelNone THEN DbWrite(t)
  ELSE IF \E i \in Ids : s = QInsert(i)
    THEN LET i == CHOOSE j \in Ids : s = QInsert(j)
         IN IF i \in t THEN DbError(ErrDuplicate, t) ELSE DbWrite(t \cup {i})
  ELSE DbError(ErrSyntax, t)

\* ------------------------------------------------------------- DataFrames
DataFrame(cols, rows) == [cols |-> cols, rows |-> rows]

\* pd.DataFrame()
EmptyFrame == DataFrame(<<>>, <<>>)

\* DataFrame.empty: any axis of length 0
IsEmpty(df) == Len(df.rows) = 0 \/ Len(df.cols) = 0

\* DataFrame.to_dict(orient="records")
ToRecords(df) ==
  [i \in 1..Len(df.rows) |->
     [c \in {df.cols[k] : k \in 1..Len(df.cols)} |->
        df.rows[i][CHOOSE k \in 1..Len(df.cols) : df.cols[k] = c]]]

\* ------------------------------------------------- scoped database session
\* "with SessionLocal() as session": __exit__ closes the session whether
\* the block is left by return or by an exception.
\* as if the session were closed by hand at the end of the try body
SessionClosedOnReturnOnly(path) == path = "return"

SessionClosedOnExit(path) == path \in {"return", "exception"}

Closed(path) == IF SessionClosedOnExit(path) THEN 1 ELSE 0

\* ------------------------------------------------------ exception handling
\* what the executed statement can raise: driver errors wrapped by
\* SQLAlchemy/pandas, pandas' "does not return rows", and the HTTPException
\* that main.py's helper raises itself
ExceptionKinds == {"DBAPIError", "ResourceClosedError", "HTTPException"}

\* as if the handlers were written "except HTTPException"
ExceptCatchesOnlyHttp(kind) == kind = "HTTPException"

\* "except Exception as e" catches every one of them
ExceptCatches(kind) == kind \in ExceptionKinds

\* ------------------------------------------------ app.py execute_sql_query
\* except Exception as e: st.error(...); return pd.DataFrame()
AppOnError(msg, t) ==
  [ret |-> EmptyFrame, raised |-> ~ExceptCatches("DBAPIError"),
   notice |-> "error", errText |-> msg,
   tblAfter |-> t, commits |-> 0, sent |-> TRUE, opened |-> 1,
   closed |-> Closed("exception"), dbOk |-> FALSE, dbRows |-> <<>>,
   dbReturnsRows |-> FALSE]

\* df = pd.read_sql(query, con=session.bind); return df
AppReadBranch(r, t) ==
  [ret |-> DataFrame(r.cols, r.rows), raised |-> FALSE, notice |-> "none",
   errText |-> "", tblAfter |-> t, commits |-> 0, sent |-> TRUE, opened |-> 1,
   closed |-> Closed("return"), dbOk |-> TRUE, dbRows |-> r.rows,
   dbReturnsRows |-> r.returnsRows]

\* as if session.commit() were missing: the session rolls back on close
AppWriteBranchNoCommit(r, t) ==
  [ret |-> EmptyFrame, raised |-> FALSE, notice |-> "success", errText |-> "",
   tblAfter |-> t, commits |-> 0, sent |-> TRUE, opened |-> 1,
   closed |-> Closed("return"), dbOk |-> TRUE, dbRows |-> r.rows,
   dbReturnsRows |-> r.returnsRows]

\* session.execute(text(query)); session.commit(); st.success(...);
\* return pd.DataFrame()
AppWriteBranch(r, t) ==
  [ret |-> EmptyFrame, raised |-> FALSE, notice |-> "success", errText |-> "",
   tblAfter |-> r.tblAfter, commits |-> 1, sent |-> TRUE, opened |-> 1,
   closed |-> Closed("return"), dbOk |-> TRUE, dbRows |-> r.rows,
   dbReturnsRows |-> r.returnsRows]

AppExecute(query, t, up) ==
  LET r == DbRun(query, t, up) IN
  IF IsSelect(query)
  THEN IF r.ok THEN AppReadBranch(r, t) ELSE AppOnError(r.msg, t)
  ELSE IF r.ok THEN AppWriteBranch(r, t) ELSE AppOnError(r.msg, t)

\* a render in which execute_sql_query is not called
NoCall(t) ==
  [ret |-> EmptyFrame, raised |-> FALSE, notice |-> "none", errText |-> "",
   tblAfter |-> t, commits |-> 0, sent |-> FALSE, opened |-> 0, closed |-> 0,
   dbOk |-> FALSE, dbRows |-> <<>>, dbReturnsRows |-> FALSE]

\* ----------------------------------------------- main.py execute_sql_query
NoDetail == [prefix |-> "", subject |-> <<>>, inner |-> "", msg |-> ""]

\* pd.read_sql(query, con=session.bind) as main.py uses it: every statement
\* is run as a read query.  A statement that returns no rows makes pandas
\* raise after the statement ran; whether its effect was committed by then
\* depends on the installed pandas/SQLAlchemy generation (autocommit).
MainReadSql(query, t, up, autocommit) ==
  LET r == DbRun(query, t, up)
  IN IF ~r.ok THEN [ok |-> FALSE, df |-> EmptyFrame, msg |-> r.msg,
                    kind |-> "DBAPIError",
                    tblAfter |-> t, commits |-> 0, db |-> r]
     ELSE IF ~r.returnsRows
       THEN [ok |-> FALSE, df |-> EmptyFrame, msg |-> ErrNoRows,
             kind |-> "ResourceClosedError",
             tblAfter |-> IF autocommit THEN r.tblAfter ELSE t,
             commits |-> IF autocommit THEN 1 ELSE 0, db |-> r]
     ELSE [ok |-> TRUE, df |-> DataFrame(r.cols, r.rows), msg |-> "",
           kind |-> "",
           tblAfter |-> t, commits |-> 0, db |-> r]

\* status and detail of the HTTPException raised by execute_sql_query
MainExecuteError(msg) == [status |-> StatusBadRequest, detail |-> msg]

\* str(HTTPException) is "<status_code>: <detail>"
HttpExceptionStr(e) == [inner |-> "400: ", msg |-> e.detail]

\* execute_sql_query(query) followed by the route's own try/except
MainExecute(query, t, up, autocommit) ==
  LET p == MainReadSql(query, t, up, autocommit) IN
  IF p.ok
  THEN [status |-> 200, detail |-> NoDetail, body |-> ToRecords(p.df),
        fault |-> FALSE, tblAfter |-> p.tblAfter, commits |-> p.commits,
        opened |-> 1, closed |-> Closed("return"), db |-> p.db, errText |-> ""]
  ELSE LET e == MainExecuteError(p.msg)
           str == HttpExceptionStr(e)
       IN [status |-> StatusBadRequest,
           detail |-> [prefix |-> "Failed to execute SQL query: ",
                       subject |-> <<>>, inner |-> str.inner, msg |-> str.msg],
           body |-> <<>>,
           fault |-> ~(ExceptCatches(p.kind) /\ ExceptCatches("HTTPException")),
           tblAfter |-> p.tblAfter,
           commits |-> p.commits, opened |-> 1, closed |-> Closed("exception"),
           db |-> p.db, errText |-> p.msg]

\* get_table_data: the statement is a text() object, never a table name
MainGetTable(table_name, t, up) ==
  LET r == DbRun(TableQuery(table_name), t, up) IN
  IF r.ok
  THEN [status |-> 200, detail |-> NoDetail,
        body |-> ToRecords(DataFrame(r.cols, r.rows)), fault |-> FALSE,
        tblAfter |-> t, commits |-> 0, opened |-> 1, closed |-> Closed("return"),
        db |-> r, errText |-> ""]
  ELSE [status |-> StatusNotFound,
        detail |-> [prefix |-> "Table not found or error: ",
                    subject |-> table_name, inner |-> "", msg |-> r.msg],
        body |-> <<>>, fault |-> ~ExceptCatches("DBAPIError"),
        tblAfter |-> t, commits |-> 0,
        opened |-> 1, closed |-> Closed("exception"), db |-> r,
        errText |-> r.msg]

\* ---------------------------------------------------------- session state
\* st.session_state.query_result: None or a DataFrame
NoResult == [some |-> FALSE, val |-> EmptyFrame]
Some(df) == [some |-> TRUE, val |-> df]

\* s[-n:]
LastN(s, n) == IF Len(s) <= n THEN s ELSE SubSeq(s, Len(s) - n + 1, Len(s))

\* s[::-1]
Reverse(s) == [i \in 1..Len(s) |-> s[Len(s) - i + 1]]

\* sidebar: for q in st.session_state.query_history[-5:][::-1]: st.code(q)
SidebarView(history) == Reverse(LastN(history, HistoryShown))

\* as if the two assignments stood outside "if not df.empty"
CustomStoreAlways(df, sql_query, result, history) ==
  [result |-> Some(df), history |-> Append(history, sql_query)]

\* Custom SQL page, Execute SQL handler: what it leaves in session state
CustomStore(df, sql_query, result, history) ==
  IF ~IsEmpty(df)
  THEN [result |-> Some(df), history |-> Append(history, sql_query)]
  ELSE [result |-> result, history |-> history]

\* st.secrets.get("admin_password", "changeme")
AdminPassword == "changeme"
Passwords == {AdminPassword, "guess", ""}

\* password != st.secrets.get(...) stops the script
PasswordAccepted(password) == password = AdminPassword

\* selectbox allow-list of the Table Viewer (all of them existing tables)
ViewerTables == {TableT}

\* ------------------------------------------------- record of the last call
AppCall(entry, query, pressed, passwordOk, called, ex, shown) ==
  [entry |-> entry, query |-> query, pressed |-> pressed,
   passwordOk |-> passwordOk, called |-> called, sent |-> ex.sent,
   dbOk |-> ex.dbOk, dbReturnsRows |-> ex.dbReturnsRows, dbRows |-> ex.dbRows,
   ret |-> ex.ret, fault |-> ex.raised, notice |-> ex.notice,
   errText |-> ex.errText, commits |-> ex.commits, status |-> 0,
   detail |-> NoDetail, body |-> <<>>, shown |-> shown]

HttpCall(entry, query, r) ==
  [entry |-> entry, query |-> query, pressed |-> TRUE, passwordOk |-> FALSE,
   called |-> TRUE, sent |-> TRUE, dbOk |-> r.db.ok,
   dbReturnsRows |-> r.db.returnsRows, dbRows |-> r.db.rows,
   ret |-> EmptyFrame, fault |-> r.fault, notice |-> "none",
   errText |-> r.errText, commits |-> r.commits, status |-> r.status,
   detail |-> r.detail, body |-> r.body, shown |-> NoResult]

Init ==
  /\ tbl = {}
  /\ query_history = <<>>
  /\ query_result = NoResult
  /\ sidebar = <<>>
  /\ openSessions = 0
  /\ last = AppCall("none", <<>>, FALSE, FALSE, FALSE, NoCall({}), NoResult)

\* ------------------------------------------------------ dashboard renders
\* Explore Tables page
RenderExplore ==
  \E table_name \in ViewerTables, load_data \in BOOLEAN, refresh \in BOOLEAN,
     up \in BOOLEAN :
    LET called == load_data \/ refresh
        ex == IF called THEN AppExecute(TableQuery(table_name), tbl, up)
              ELSE NoCall(tbl)
    IN /\ sidebar' = SidebarView(query_history)
       /\ tbl' = ex.tblAfter
       /\ openSessions' = openSessions + ex.opened - ex.closed
       /\ last' = AppCall("explore", TableQuery(table_name), called, FALSE,
                          called, ex, NoResult)
       /\ UNCHANGED <<query_history, query_result>>

\* Custom SQL page, Execute SQL not pressed: the stored result is shown again
RenderCustomIdle ==
  /\ sidebar' = SidebarView(query_history)
  /\ last' = AppCall("custom", <<>>, FALSE, FALSE, FALSE, NoCall(tbl),
                     query_result)
  /\ UNCHANGED <<tbl, query_history, query_result, openSessions>>

\* Custom SQL page, Execute SQL pressed
RenderCustomExecute ==
  \E sql_query \in Queries, up \in BOOLEAN :
    LET called == NonBlank(sql_query)
        ex == IF called THEN AppExecute(sql_query, tbl, up) ELSE NoCall(tbl)
        st == IF called
              THEN CustomStore(ex.ret, sql_query, query_result, query_history)
              ELSE [result |-> query_result, history |-> query_history]
    IN /\ Len(st.history) <= MaxHist
       /\ sidebar' = SidebarView(query_history)
       /\ query_result' = st.result
       /\ query_history' = st.history
       /\ tbl' = ex.tblAfter
       /\ openSessions' = openSessions + ex.opened - ex.closed
       /\ last' = AppCall("custom", sql_query, TRUE, FALSE, called, ex,
                          st.result)

\* Insert/Delete page, wrong password: st.stop() before any other widget
RenderInsertDeleteDenied ==
  \E password \in Passwords :
    /\ ~PasswordAccepted(password)
    /\ sidebar' = SidebarView(query_history)
    /\ last' = AppCall("modify", <<>>, FALSE, FALSE, FALSE, NoCall(tbl),
                       NoResult)
    /\ UNCHANGED <<tbl, query_history, query_result, openSessions>>

\* Insert/Delete page, password accepted
RenderInsertDelete ==
  \E password \in Passwords, modify_query \in Queries, pressed \in BOOLEAN,
     up \in BOOLEAN :
    LET called == pressed /\ NonBlank(modify_query)
        ex == IF called THEN AppExecute(modify_query, tbl, up) ELSE NoCall(tbl)
    IN /\ PasswordAccepted(password)
       /\ sidebar' = SidebarView(query_history)
       /\ tbl' = ex.tblAfter
       /\ openSessions' = openSessions + ex.opened - ex.closed
       /\ last' = AppCall("modify", IF pressed THEN modify_query ELSE <<>>,
                          pressed, TRUE, called, ex, NoResult)
       /\ UNCHANGED <<query_history, query_result>>

\* ------------------------------------------------------------ HTTP routes
\* POST /data/execute_sql
HttpExecuteSql ==
  \E query \in Queries, up \in BOOLEAN, autocommit \in BOOLEAN :
    LET r == MainExecute(query, tbl, up, autocommit)
    IN /\ tbl' = r.tblAfter
       /\ openSessions' = openSessions + r.opened - r.closed
       /\ last' = HttpCall("post", query, r)
       /\ UNCHANGED <<query_history, query_result, sidebar>>

\* GET /data/{table_name}
HttpGetTable ==
  \E table_name \in TableNames, up \in BOOLEAN :
    LET r == MainGetTable(table_name, tbl, up)
    IN /\ tbl' = r.tblAfter
       /\ openSessions' = openSessions + r.opened - r.closed
       /\ last' = HttpCall("get", table_name, r)
       /\ UNCHANGED <<query_history, query_result, sidebar>>

Next ==
  \/ RenderExplore
  \/ RenderCustomIdle
  \/ RenderCustomExecute
  \/ RenderInsertDeleteDenied
  \/ RenderInsertDelete
  \/ HttpExecuteSql
  \/ HttpGetTable

Spec == Init /\ [][Next]_vars

\* ------------------------------------------------------------- properties
AppEntries == {"explore", "custom", "modify"}

DbFailed == last.called /\ ~last.dbOk

\* C1: a database-level error never escapes as an uncaught fault: the local
\* executor returns a value (the empty frame, with the error shown), POST
\* /data/execute_sql answers 400 and GET /data/{table_name} answers 404, each
\* with the driver's message in the detail.
C1_DbErrorsAreSurfaced ==
  DbFailed =>
    /\ ~last.fault
    /\ last.entry \in AppEntries =>
         /\ last.ret = EmptyFrame
         /\ last.notice = "error"
    /\ last.entry = "post" =>
         /\ last.status = StatusBadRequest
         /\ last.detail.msg = last.errText
    /\ last.entry = "get" =>
         /\ last.status = StatusNotFound
         /\ last.detail.msg = last.errText

C1_Witness ==
  /\ DbFailed
  /\ last.entry = "post"
  /\ last.errText = ErrNoRelation
  /\ last.status = StatusBadRequest

\* C2: no session acquired by a call is open once the call has returned,
\* whatever mix of reads, mutations and failures came before.
C2_NoSessionLeftOpen == openSessions = 0

C2_Witness ==
  /\ DbFailed
  /\ last.entry = "custom"
  /\ query_history # <<>>
  /\ openSessions = 0

\* C3 (as claimed): the value the local executor returns for a statement
\* that succeeded with zero rows differs from the value it returns for a
\* failure.
C3_ZeroRowsDistinctFromFailure ==
  (last.entry \in AppEntries /\ last.called /\ last.dbOk /\ last.dbRows = <<>>)
    => last.ret # AppOnError(ErrSyntax, tbl).ret

C5_ReadReturnsAllRows ==
  (last.entry \in AppEntries /\ last.called /\ last.dbOk /\ last.dbReturnsRows)
    => last.ret.rows = last.dbRows

\* C6 (as claimed): through every entry point a blank query is stopped by a
\* guard and never sent to the database.
C6_BlankNeverSent ==
  (last.pressed /\ ~NonBlank(last.query)) => ~last.sent

\* C7 (as claimed): the dashboard commits a mutating statement only in a
\* render where the admin password was entered.
C7_MutationNeedsPassword ==
  (last.entry \in AppEntries /\ last.dbOk /\ ~last.dbReturnsRows
     /\ last.commits > 0)
    => last.passwordOk

\* C8 (as claimed): after a press of Execute SQL with a non-blank query the
\* result shown is the outcome of that execution, never an earlier result.
C8_ShownIsLatestOutcome ==
  (last.entry = "custom" /\ last.pressed /\ NonBlank(last.query)
     /\ last.shown.some)
    => last.shown.val = last.ret

\* C9 (as claimed): the stored history only grows at its end, and the
\* sidebar shows exactly the last min(5, n) stored entries, newest first.
C9_HistoryAndSidebar ==
  /\ [][/\ Len(query_history') >= Len(query_history)
        /\ SubSeq(query_history', 1, Len(query_history)) = query_history]_vars
  /\ [](sidebar = SidebarView(query_history))

\* C10: query_history and query_result change only together, in the Custom
\* SQL Execute step and only when the execution returned rows; the stored
\* result is None exactly when the history is empty and is otherwise the
\* non-empty frame returned when the last history entry was executed.
C10_ResultFollowsHistory ==
  /\ [][(query_history' # query_history \/ query_result' # query_result) =>
          /\ last'.entry = "custom"
          /\ last'.called
          /\ ~IsEmpty(last'.ret)
          /\ query_history' = Append(query_history, last'.query)
          /\ query_result' = Some(last'.ret)]_vars
  /\ [](/\ query_result.some <=> query_history # <<>>
        /\ query_result.some => ~IsEmpty(query_result.val))

C10_Witness ==
  /\ Len(query_history) >= 2
  /\ query_history[1] # query_history[2]
  /\ query_result.some
  /\ last.entry = "custom"
  /\ last.called
  /\ IsEmpty(last.ret)
====
